---- MODULE Spec2Model ----
(***************************************************************************)
(* AgentForger: the command dispatcher (Orchestrator.executeCommand) and   *)
(* the five-phase pipeline (BaseWorkflow.execute) with the category        *)
(* workflows message, system, agent, meta, critic and output.              *)
(*                                                                         *)
(* JavaScript values are records tagged by their type (field t), so that   *)
(* truthiness, `||` defaults and `includes` are computed as the code       *)
(* computes them.  A string is a sequence of chunks (runs of characters)   *)
(* together with its length; a command string is the sequence of its       *)
(* chunks, the separator ":" being a chunk of its own.                     *)
(***************************************************************************)
EXTENDS Integers, Sequences, FiniteSets, TLC

\* ------------------------------------------------------------ bounds
\* How many calls a caller makes in one process lifetime.
MaxCalls == 2
\* How many dispatches can be in flight (slots of the caller).
NumSlots == 2

\* ------------------------------------------------------------ JS values
Undefined == [t |-> "undefined"]
Str(chunks, n) == [t |-> "string", s |-> chunks, len |-> n]
Bool(b) == [t |-> "boolean", b |-> b]
Num(n) == [t |-> "number", n |-> n]

\* An object (a result, a phaseResults map) carries no type tag.
IsObject(v) == "t" \notin DOMAIN v

\* ToBoolean: undefined, "", false and 0 are falsy, everything else truthy.
Truthy(v) ==
    IF IsObject(v) THEN TRUE
    ELSE CASE v.t = "undefined" -> FALSE
           [] v.t = "string" -> v.len > 0
           [] v.t = "boolean" -> v.b
           [] v.t = "number" -> v.n # 0
           [] OTHER -> TRUE

\* a || b
OrElse(a, b) == IF Truthy(a) THEN a ELSE b

\* String.prototype.startsWith / endsWith on a chunked string.
StartsWith(v, c) == v.t = "string" /\ Len(v.s) > 0 /\ v.s[1] = c
EndsWith(v, c) == v.t = "string" /\ Len(v.s) > 0 /\ v.s[Len(v.s)] = c

\* obj[k] on a params object: an absent key reads undefined.
Get(p, k) == IF k \in DOMAIN p THEN p[k] ELSE Undefined
\* delete obj[k]
Delete(p, k) == [x \in DOMAIN p \ {k} |-> p[x]]
\* obj[k] = v
Put(p, k, v) == [x \in DOMAIN p \cup {k} |-> IF x = k THEN v ELSE p[x]]

\* new Date().toISOString(): the clock is outside the program.
Timestamp == "now"

\* Array.prototype.join on a list of chunks.
RECURSIVE Join(_, _)
Join(list, sep) ==
    IF Len(list) = 0 THEN << >>
    ELSE IF Len(list) = 1 THEN << list[1] >>
    ELSE << list[1], sep >> \o Join(Tail(list), sep)

\* new Error(message): the message is the template literal's parts.
Err(name, parts) == [name |-> name, message |-> parts]
NoError == [name |-> "none", message |-> << >>]

\* ------------------------------------------------------------ command strings
\* String.prototype.split(sep) on chunks: the segments between the separators
\* (adjacent chunks of one segment are concatenated).
RECURSIVE SplitOn(_, _)
SplitOn(chunks, sep) ==
    IF Len(chunks) = 0 THEN << "" >>
    ELSE IF chunks[1] = sep THEN << "" >> \o SplitOn(Tail(chunks), sep)
    ELSE IF Len(chunks) = 1 THEN << chunks[1] >>
    ELSE IF chunks[2] = sep
         THEN << chunks[1] >> \o SplitOn(SubSeq(chunks, 3, Len(chunks)), sep)
    ELSE SplitOn(<< chunks[1] \o chunks[2] >> \o SubSeq(chunks, 3, Len(chunks)), sep)

\* command.split(':')
Split(cmd) == SplitOn(cmd, ":")

Cmd(category, action) == << category, ":", action >>

\* ------------------------------------------------------------ the pipeline
\* BaseWorkflow.phases
phases == << "initialization", "parameters", "workflow", "validation", "output" >>

\* The longest context text the parameters phase accepts.
ContextMax == 1000

\* ------------------------------------------------------------ state
VARIABLES
    workflows,   \* Orchestrator.workflows: category -> workflow class
    settings,    \* Orchestrator.settings (Session Settings)
    heap,        \* the arrays ever held by Orchestrator.context, by identity
    contextRef,  \* Orchestrator.context: the identity of the current array
    agents,      \* CriticWorkflow.agents (BaseWorkflow.loadAgent)
    templates,   \* CriticWorkflow.templates (BaseWorkflow.loadTemplate)
    files,       \* the trace files written by savePipelineData: path -> data
    disp,        \* the caller's dispatches: slot -> the call and its context
    calls        \* how many calls the caller has made

vars == << workflows, settings, heap, contextRef, agents, templates, files, disp, calls >>

Slots == 1 .. NumSlots

\* The state shared by all dispatches, as one record the handlers transform.
Globals == [settings |-> settings, heap |-> heap, contextRef |-> contextRef,
            agents |-> agents, templates |-> templates]

\* What a phase handler yields: the context and shared state after it, and
\* either the value it returns or the error it throws.
Return(c, g, ret) == [c |-> c, g |-> g, ret |-> ret, err |-> NoError]
Throw(c, g, e) == [c |-> c, g |-> g, ret |-> Undefined, err |-> e]

\* ------------------------------------------------------------ Orchestrator
\* Orchestrator.loadDefaultSettings
loadDefaultSettings ==
    [activeAgent |-> Str(<< "discussion-moderator" >>, 20),
     verbosity |-> Str(<< "off" >>, 3),
     format |-> Str(<< "text" >>, 4)]

\* Orchestrator.initialize: the categories registered, each with its class.
initialize ==
    [k \in {"message", "system", "agent", "meta", "critic"} |->
        CASE k = "message" -> "MessageWorkflow"
          [] k = "system" -> "SystemWorkflow"
          [] k = "agent" -> "AgentWorkflow"
          [] k = "meta" -> "MetaWorkflow"
          [] k = "critic" -> "CriticWorkflow"]

\* metadata.supportedCommands of each workflow class.
supportedCommands(wf) ==
    CASE wf = "MessageWorkflow" -> {Cmd("message", "new"), Cmd("message", "read")}
      [] wf = "SystemWorkflow" ->
            {Cmd("system", "on"), Cmd("system", "health"), Cmd("system", "manifest")}
      [] wf = "AgentWorkflow" ->
            {Cmd("agent", "switch"), Cmd("agent", "status"),
             Cmd("agent", "list"), Cmd("agent", "reset")}
      [] wf = "MetaWorkflow" -> {Cmd("meta", "context")}
      [] wf = "CriticWorkflow" ->
            {Cmd("critic", "harsh"), Cmd("critic", "mentor"), Cmd("critic", "casual")}
      [] wf = "OutputWorkflow" -> {Cmd("output", "verbosity"), Cmd("output", "format")}
      [] OTHER -> {}

\* A plausible slip: a command is supported when its category is the workflow's.
isSupportedCategory(wf, command) ==
    \E known \in supportedCommands(wf) : Len(command) > 0 /\ known[1] = command[1]

\* BaseWorkflow.isSupportedCommand (and its identical overrides)
isSupportedCommand(wf, command) == command \in supportedCommands(wf)

\* ------------------------------------------------------------ BaseWorkflow
\* BaseWorkflow.executeInitializationPhase
BaseInitializationPhase(c, g) == Return(c, g, [status |-> "initialized"])

\* BaseWorkflow.executeParametersPhase: the two checks of the global parameters.
BaseParametersPhase(c, g) ==
    IF Truthy(c.save) /\ (~StartsWith(c.save, "/") \/ ~EndsWith(c.save, ".json"))
    THEN Throw(c, g, Err("Error", << "Save path must be absolute and end with .json" >>))
    ELSE IF Truthy(c.context) /\ c.context.len > ContextMax
    THEN Throw(c, g, Err("Error", << "Context must be less than 1000 characters" >>))
    ELSE Return(c, g, [status |-> "parameters_processed", params |-> c.params])

\* BaseWorkflow.executeWorkflowPhase
BaseWorkflowPhase(c, g) == Return(c, g, [status |-> "workflow_completed"])

\* BaseWorkflow.executeValidationPhase
BaseValidationPhase(c, g) == Return(c, g, [status |-> "validated"])

\* BaseWorkflow.executeOutputPhase
BaseOutputPhase(c, g) == Return(c, g, [status |-> "output_formatted"])

\* A plausible slip: the stub reports an error and still says valid.
validateWithRulesInconsistent(ruleSets, data) == [valid |-> TRUE, errors |-> << "rule violated" >>]

\* BaseWorkflow.validateWithRules (a stub: every data is valid)
validateWithRules(ruleSets, data) == [valid |-> TRUE, errors |-> << >>]

\* A validation phase's throw: `Validation failed: ${errors.join(', ')}`
ValidationError(validation) ==
    Err("Error", << "Validation failed: " >> \o Join(validation.errors, ", "))

\* ------------------------------------------------------------ MessageWorkflow
DefaultAgent == Str(<< "discussion-moderator" >>, 20)

\* MessageWorkflow.handleNewMessage
handleNewMessage(c, g) ==
    LET fromFlag == Get(c.params, "message")
        messageContent ==
            IF ~Truthy(fromFlag) /\ Truthy(c.args) /\ Len(c.args.items) > 0
            THEN Str(Join(c.args.items, " "), c.args.len)
            ELSE fromFlag
        targetAgent == OrElse(Get(c.params, "to"), DefaultAgent)
    IN  IF ~Truthy(messageContent)
        THEN Throw(c, g, Err("Error",
                << "Message content is required. Use --message \"your message\" or provide it as a positional argument." >>))
        ELSE Return(c, g,
                [success |-> TRUE, action |-> "created",
                 message |-> [content |-> messageContent,
                              to |-> targetAgent,
                              timestamp |-> Timestamp,
                              formattedContent |->
                                  Str(<< "Message: " >> \o messageContent.s \o << " (to: " >>
                                          \o targetAgent.s \o << ")" >>,
                                      9 + messageContent.len + 6 + targetAgent.len + 1)]])

\* The count of messages read when --count is not given.
DefaultReadCount == 5

\* MessageWorkflow.handleReadMessages
handleReadMessages(c, g) ==
    LET count == OrElse(Get(c.params, "count"), Num(DefaultReadCount))
    IN  Return(c, g,
            [success |-> TRUE, action |-> "read",
             messages |-> [i \in 1 .. count.n |->
                              [id |-> i, content |-> << "Sample message ", i >>,
                               timestamp |-> Timestamp]],
             count |-> count])

\* MessageWorkflow.executeWorkflowPhase
MessageWorkflowPhase(c, g) ==
    IF c.command = Cmd("message", "new") THEN handleNewMessage(c, g)
    ELSE IF c.command = Cmd("message", "read") THEN handleReadMessages(c, g)
    ELSE Return(c, g, Undefined)

\* MessageWorkflow.executeValidationPhase
MessageValidationPhase(c, g) ==
    LET validation == validateWithRules(<< "message" >>, c)
    IN  IF ~validation.valid THEN Throw(c, g, ValidationError(validation))
        ELSE Return(c, g, validation)

\* MessageWorkflow.executeOutputPhase.  For message:new the arguments of the
\* executeUtilities call read context.result.message, and nothing has set
\* context.result; BaseWorkflow defines no executeUtilities either.
MessageOutputPhase(c, g) ==
    IF c.command = Cmd("message", "new")
    THEN IF c.result = Undefined
         THEN Throw(c, g, Err("TypeError",
                 << "Cannot read properties of undefined (reading 'message')" >>))
         ELSE Throw(c, g, Err("TypeError", << "this.executeUtilities is not a function" >>))
    ELSE Return(c, g, c.result)

\* ------------------------------------------------------------ SystemWorkflow
\* SystemWorkflow.handleSystemOn
handleSystemOn(c, g) ==
    Return(c, g,
        [success |-> TRUE, action |-> "initialized",
         status |-> [initialized |-> TRUE, timestamp |-> Timestamp],
         message |-> "Agent Forger system initialized successfully"])

\* SystemWorkflow.handleSystemHealth
handleSystemHealth(c, g) ==
    LET verbose == OrElse(Get(c.params, "verbose"), Bool(FALSE))
    IN  Return(c, g,
            [success |-> TRUE, action |-> "health_check",
             status |-> [overall |-> "healthy", timestamp |-> Timestamp,
                         details |-> Truthy(verbose)],
             verbose |-> verbose])

\* A plausible slip: the manifest's format is remembered in the Session Settings.
handleSystemManifestStoring(c, g) ==
    LET format == OrElse(Get(c.params, "format"), Str(<< "text" >>, 4))
    IN  Return(c, [g EXCEPT !.settings.format = format],
               [success |-> TRUE, action |-> "manifest",
                format |-> format.s[1], data |-> "manifest"])

\* SystemWorkflow.handleSystemManifest
handleSystemManifest(c, g) ==
    LET format == OrElse(Get(c.params, "format"), Str(<< "text" >>, 4))
    IN  IF format = Str(<< "json" >>, 4)
        THEN Return(c, g, [success |-> TRUE, action |-> "manifest",
                           format |-> "json", data |-> "manifest"])
        ELSE Return(c, g, [success |-> TRUE, action |-> "manifest",
                           format |-> "text", data |-> "textManifest"])

\* SystemWorkflow.executeWorkflowPhase
SystemWorkflowPhase(c, g) ==
    IF c.command = Cmd("system", "on") THEN handleSystemOn(c, g)
    ELSE IF c.command = Cmd("system", "health") THEN handleSystemHealth(c, g)
    ELSE IF c.command = Cmd("system", "manifest") THEN handleSystemManifest(c, g)
    ELSE Return(c, g, Undefined)

\* ------------------------------------------------------------ AgentWorkflow
\* The persona files .system/agents/<name>.md that fs.existsSync finds.
AgentFiles == { << "discussion-moderator" >>, << "casual-critic" >> }

\* A plausible slip: the name is stored before the persona file is looked up.
handleSwitchStoringFirst(c, g) ==
    LET agentName == Get(c.params, "name")
        g1 == [g EXCEPT !.settings.activeAgent = agentName]
    IN  IF ~Truthy(agentName)
        THEN Throw(c, g, Err("Error", << "Agent name is required. Use --name \"agent-name\"" >>))
        ELSE IF agentName.s \notin AgentFiles
        THEN Throw(c, g1, Err("Error", << "Agent \"" >> \o agentName.s \o << "\" not found" >>))
        ELSE Return(c, g1, [success |-> TRUE, action |-> "switched_agent", agent |-> agentName])

\* AgentWorkflow.handleSwitch
handleSwitch(c, g) ==
    LET agentName == Get(c.params, "name")
    IN  IF ~Truthy(agentName)
        THEN Throw(c, g, Err("Error", << "Agent name is required. Use --name \"agent-name\"" >>))
        ELSE IF agentName.s \notin AgentFiles
        THEN Throw(c, g, Err("Error", << "Agent \"" >> \o agentName.s \o << "\" not found" >>))
        ELSE Return(c, [g EXCEPT !.settings.activeAgent = agentName],
                    [success |-> TRUE, action |-> "switched_agent", agent |-> agentName])

\* A plausible slip: the status reports the defaults, not the settings.
handleStatusDefaults(c, g) ==
    Return(c, g,
        [success |-> TRUE, action |-> "status",
         activeAgent |-> DefaultAgent,
         verbosity |-> Str(<< "off" >>, 3),
         format |-> Str(<< "text" >>, 4)])

\* AgentWorkflow.handleStatus
handleStatus(c, g) ==
    Return(c, g,
        [success |-> TRUE, action |-> "status",
         activeAgent |-> OrElse(g.settings.activeAgent, DefaultAgent),
         verbosity |-> OrElse(g.settings.verbosity, Str(<< "off" >>, 3)),
         format |-> OrElse(g.settings.format, Str(<< "text" >>, 4))])

\* AgentWorkflow.handleList
handleList(c, g) ==
    Return(c, g, [success |-> TRUE, action |-> "list_agents", agents |-> AgentFiles])

\* A plausible slip: reset restores the agent and leaves the output settings.
handleResetAgentOnly(c, g) ==
    Return(c,
        [g EXCEPT !.settings.activeAgent = Str(<< "discussion-moderator" >>, 20)],
        [success |-> TRUE, action |-> "reset",
         message |-> "Agent settings reset to defaults"])

\* AgentWorkflow.handleReset
handleReset(c, g) ==
    Return(c,
        [g EXCEPT !.settings = [activeAgent |-> Str(<< "discussion-moderator" >>, 20),
                                verbosity |-> Str(<< "off" >>, 3),
                                format |-> Str(<< "text" >>, 4)]],
        [success |-> TRUE, action |-> "reset",
         message |-> "Agent settings reset to defaults"])

\* AgentWorkflow.executeWorkflowPhase
AgentWorkflowPhase(c, g) ==
    IF c.command = Cmd("agent", "switch") THEN handleSwitch(c, g)
    ELSE IF c.command = Cmd("agent", "status") THEN handleStatus(c, g)
    ELSE IF c.command = Cmd("agent", "list") THEN handleList(c, g)
    ELSE IF c.command = Cmd("agent", "reset") THEN handleReset(c, g)
    ELSE Return(c, g, Undefined)

\* ------------------------------------------------------------ MetaWorkflow
\* A plausible slip: the entry is keyed by the command's category.
EntryByCategory(command, content) ==
    [command |-> << Split(command)[1] >>, content |-> content, timestamp |-> Timestamp]

\* An entry of the Global Context Store.
Entry(command, content) == [command |-> command, content |-> content, timestamp |-> Timestamp]

\* A plausible slip: unshift instead of push.
Unshift(g, entry) == [g EXCEPT !.heap[g.contextRef] = << entry >> \o @]

\* A plausible slip: the store is assigned a new array holding the entry.
PushReplacing(g, entry) == [g EXCEPT !.heap[g.contextRef] = << entry >>]

\* this.context.push(entry) on the array Orchestrator.context holds.
Push(g, entry) == [g EXCEPT !.heap[g.contextRef] = Append(@, entry)]

\* A plausible slip: every flag that is set is acted on, not only the first.
handleContextEveryFlag(c, g) ==
    LET params == c.params
        g1 == IF Truthy(Get(params, "add"))
              THEN [g EXCEPT !.heap[g.contextRef] =
                       Append(@, [command |-> c.command, content |-> params.add,
                                  timestamp |-> Timestamp])]
              ELSE g
        g2 == IF Truthy(Get(params, "clear"))
              THEN [g1 EXCEPT !.heap = Append(@, << >>), !.contextRef = Len(g1.heap) + 1]
              ELSE g1
    IN  IF Truthy(Get(params, "add"))
        THEN Return(c, g2, [success |-> TRUE, action |-> "context_added", content |-> params.add])
        ELSE IF Truthy(Get(params, "list"))
        THEN Return(c, g2, [success |-> TRUE, action |-> "context_listed",
                            context |-> [ref |-> g2.contextRef]])
        ELSE IF Truthy(Get(params, "clear"))
        THEN Return(c, g2, [success |-> TRUE, action |-> "context_cleared",
                            clearedCount |-> Len(g.heap[g.contextRef])])
        ELSE Throw(c, g, Err("Error",
                << "Specify --add, --list, or --clear for meta:context command" >>))

\* A plausible slip: the count is read after the array was replaced.
handleContextCountingLate(c, g) ==
    LET params == c.params
    IN  IF Truthy(Get(params, "add"))
        THEN Return(c, Push(g, Entry(c.command, params.add)),
                    [success |-> TRUE, action |-> "context_added", content |-> params.add])
        ELSE IF Truthy(Get(params, "list"))
        THEN Return(c, g, [success |-> TRUE, action |-> "context_listed",
                           context |-> [ref |-> g.contextRef]])
        ELSE IF Truthy(Get(params, "clear"))
        THEN Return(c,
                    [g EXCEPT !.heap = Append(@, << >>), !.contextRef = Len(g.heap) + 1],
                    [success |-> TRUE, action |-> "context_cleared", clearedCount |-> 0])
        ELSE Throw(c, g, Err("Error",
                << "Specify --add, --list, or --clear for meta:context command" >>))

\* MetaWorkflow.handleContext: add, else list, else clear, else throw.
handleContext(c, g) ==
    LET params == c.params
    IN  IF Truthy(Get(params, "add"))
        THEN Return(c, Push(g, Entry(c.command, params.add)),
                    [success |-> TRUE, action |-> "context_added", content |-> params.add])
        ELSE IF Truthy(Get(params, "list"))
        THEN Return(c, g, [success |-> TRUE, action |-> "context_listed",
                           context |-> [ref |-> g.contextRef]])
        ELSE IF Truthy(Get(params, "clear"))
        THEN Return(c,
                    [g EXCEPT !.heap = Append(@, << >>), !.contextRef = Len(g.heap) + 1],
                    [success |-> TRUE, action |-> "context_cleared",
                     clearedCount |-> Len(g.heap[g.contextRef])])
        ELSE Throw(c, g, Err("Error",
                << "Specify --add, --list, or --clear for meta:context command" >>))

\* MetaWorkflow.executeWorkflowPhase
MetaWorkflowPhase(c, g) ==
    IF c.command = Cmd("meta", "context") THEN handleContext(c, g)
    ELSE Return(c, g, Undefined)

\* ------------------------------------------------------------ OutputWorkflow
validLevels == << "low", "medium", "high", "off" >>
validTypes == << "json", "markdown", "text" >>

\* Array.prototype.includes on a list of one-chunk strings.
Includes(list, v) == v.t = "string" /\ \E i \in 1 .. Len(list) : v.s = << list[i] >>

\* The description handleVerbosity returns with each level.
descriptions(level) ==
    CASE level = "low" -> "~140 characters (concise)"
      [] level = "medium" -> "~520 characters (balanced)"
      [] level = "high" -> "~740 characters (detailed)"
      [] level = "off" -> "unrestricted length"

\* A plausible slip: the level is stored without the membership test.
handleVerbosityUnchecked(c, g) ==
    LET level == Get(c.params, "level")
    IN  Return(c, [g EXCEPT !.settings.verbosity = level],
               [success |-> TRUE, action |-> "set_verbosity", level |-> level])

\* OutputWorkflow.handleVerbosity
handleVerbosity(c, g) ==
    LET level == Get(c.params, "level")
    IN  IF ~Includes(validLevels, level)
        THEN Throw(c, g, Err("Error",
                << "Invalid verbosity level. Valid options: " >> \o Join(validLevels, ", ")))
        ELSE Return(c, [g EXCEPT !.settings.verbosity = level],
                    [success |-> TRUE, action |-> "set_verbosity", level |-> level,
                     description |-> descriptions(level.s[1])])

\* OutputWorkflow.handleFormat
handleFormat(c, g) ==
    LET type == Get(c.params, "type")
    IN  IF ~Includes(validTypes, type)
        THEN Throw(c, g, Err("Error",
                << "Invalid format type. Valid options: " >> \o Join(validTypes, ", ")))
        ELSE Return(c, [g EXCEPT !.settings.format = type],
                    [success |-> TRUE, action |-> "set_format", type |-> type])

\* OutputWorkflow.executeWorkflowPhase
OutputWorkflowPhase(c, g) ==
    IF c.command = Cmd("output", "verbosity") THEN handleVerbosity(c, g)
    ELSE IF c.command = Cmd("output", "format") THEN handleFormat(c, g)
    ELSE Return(c, g, Undefined)

\* ------------------------------------------------------------ CriticWorkflow
\* BaseWorkflow.loadAgent / loadTemplate: Map.set on the workflow instance.
loadAgent(g, agentName) == [g EXCEPT !.agents = @ \cup {agentName}]
loadTemplate(g, templateName) == [g EXCEPT !.templates = @ \cup {templateName}]

\* BaseWorkflow.readFile (a stub)
readFile(path) == Str(<< "Sample file content" >>, 19)

\* String.prototype.toUpperCase / trim on the chunks the inputs use.
ToUpperCase(chunk) ==
    CASE chunk = "general" -> "GENERAL"
      [] chunk = "thoughts" -> "THOUGHTS"
      [] OTHER -> chunk
Trim(chunk) ==
    CASE chunk = " ethics" -> "ethics"
      [] OTHER -> chunk

\* A plausible slip: the personality is kept on the workflow instance, as the
\* agent loaded first, and read from there.
CriticInitializationPhaseShared(c, g) ==
    LET own == Split(c.command)[2]
        g1 == loadTemplate(loadAgent(g, << own, "-critic" >>), "critic-report")
        personality == IF g.agents = {} THEN own ELSE (CHOOSE a \in g.agents : TRUE)[1]
    IN  Return([c EXCEPT !.personality = personality], g1,
               [status |-> "initialized", personality |-> personality])

\* CriticWorkflow.executeInitializationPhase
CriticInitializationPhase(c, g) ==
    LET personality == Split(c.command)[2]
    IN  Return([c EXCEPT !.personality = personality],
               loadTemplate(loadAgent(g, << personality, "-critic" >>), "critic-report"),
               [status |-> "initialized", personality |-> personality])

\* CriticWorkflow.executeParametersPhase: it replaces the base handler and
\* checks the source only.
CriticParametersPhase(c, g) ==
    IF ~Truthy(Get(c.params, "source"))
    THEN Throw(c, g, Err("Error", << "Source parameter is required" >>))
    ELSE
    LET p1 == Put(c.params, "domain", OrElse(Get(c.params, "domain"), Str(<< "general" >>, 7)))
        p2 == Put(p1, "audience", OrElse(Get(p1, "audience"), Str(<< "general" >>, 7)))
        p3 == IF Truthy(Get(p2, "focus"))
              THEN Put(p2, "focus",
                       [t |-> "array",
                        items |-> [i \in DOMAIN SplitOn(p2.focus.s, ",") |->
                                      Trim(SplitOn(p2.focus.s, ",")[i])]])
              ELSE p2
        c1 == [c EXCEPT !.params = p3,
                        !.sourceContent = IF StartsWith(p3.source, "/")
                                          THEN readFile(p3.source) ELSE p3.source]
        c2 == IF Truthy(Get(p3, "compare"))
              THEN [c1 EXCEPT !.previousCritique = readFile(p3.compare)]
              ELSE c1
    IN  Return(c2, g, [status |-> "parameters_processed"])

\* BaseWorkflow.generateContent (a stub): it reads template.name and agent.name.
generateContent(template, params, agent) ==
    [metadata |-> params,
     overview |-> "Sample overview of the critique",
     understanding |-> "Sample understanding summary",
     critical_points |-> << "Point 1", "Point 2" >>,
     positive_points |-> << "Positive 1", "Positive 2" >>,
     questions |-> << "Question 1" >>,
     final_remarks |-> << "Remark 1" >>]

\* CriticWorkflow.executeWorkflowPhase
CriticWorkflowPhase(c, g) ==
    LET contentData ==
            [content |-> c.sourceContent,
             domain |-> Get(c.params, "domain"),
             focus |-> OrElse(Get(c.params, "focus"), [t |-> "array", items |-> << >>]),
             audience |-> Get(c.params, "audience"),
             personality |-> c.personality,
             previousCritique |-> c.previousCritique,
             userContext |-> c.context]
        agentName == << c.personality, "-critic" >>
    IN  IF "critic-report" \notin g.templates \/ agentName \notin g.agents
        THEN Throw(c, g, Err("TypeError",
                << "Cannot read properties of undefined (reading 'name')" >>))
        ELSE Return([c EXCEPT !.critique =
                        generateContent("critic-report", contentData, agentName)],
                    g, [status |-> "critique_generated"])

\* CriticWorkflow.executeValidationPhase
CriticValidationPhase(c, g) ==
    LET validation == validateWithRules(<< "critic" >>, [params |-> c.params, critique |-> c.critique])
    IN  IF ~validation.valid THEN Throw(c, g, ValidationError(validation))
        ELSE Return(c, g, [status |-> "validated"])

\* CriticWorkflow.formatCritiqueReport: the heading and the critique's sections.
formatCritiqueReport(critique, params) ==
    [heading |-> << "# ", ToUpperCase(params.domain.s[1]), " CRITIQUE (", "BaseWorkflow", ")" >>,
     metadata |-> critique.metadata,
     overview |-> critique.overview,
     understanding |-> critique.understanding,
     critical_points |-> critique.critical_points,
     positive_points |-> critique.positive_points,
     questions |-> critique.questions,
     final_remarks |-> critique.final_remarks]

\* CriticWorkflow.executeOutputPhase: the one handler that sets context.result.
CriticOutputPhase(c, g) ==
    Return([c EXCEPT !.result =
                [personality |-> c.personality,
                 domain |-> c.params.domain,
                 report |-> formatCritiqueReport(c.critique, c.params)]],
           g, [status |-> "output_formatted"])

\* ------------------------------------------------------------ phase dispatch
\* The execute<Phase>Phase methods a workflow class defines itself.
Overrides(wf) ==
    CASE wf = "MessageWorkflow" -> {"workflow", "validation", "output"}
      [] wf = "CriticWorkflow" -> {"initialization", "parameters", "workflow", "validation", "output"}
      [] wf \in {"SystemWorkflow", "AgentWorkflow", "MetaWorkflow", "OutputWorkflow"} ->
            {"workflow"}
      [] OTHER -> {}

\* The execute<Phase>Phase methods BaseWorkflow defines (all five).
BaseMethods == {"initialization", "parameters", "workflow", "validation", "output"}

\* The method this[methodName] resolves to, run on the context.
Method(wf, phase, c, g) ==
    IF phase \in Overrides(wf)
    THEN CASE wf = "MessageWorkflow" /\ phase = "workflow" -> MessageWorkflowPhase(c, g)
           [] wf = "MessageWorkflow" /\ phase = "validation" -> MessageValidationPhase(c, g)
           [] wf = "MessageWorkflow" /\ phase = "output" -> MessageOutputPhase(c, g)
           [] wf = "SystemWorkflow" -> SystemWorkflowPhase(c, g)
           [] wf = "AgentWorkflow" -> AgentWorkflowPhase(c, g)
           [] wf = "MetaWorkflow" -> MetaWorkflowPhase(c, g)
           [] wf = "OutputWorkflow" -> OutputWorkflowPhase(c, g)
           [] wf = "CriticWorkflow" /\ phase = "initialization" -> CriticInitializationPhase(c, g)
           [] wf = "CriticWorkflow" /\ phase = "parameters" -> CriticParametersPhase(c, g)
           [] wf = "CriticWorkflow" /\ phase = "workflow" -> CriticWorkflowPhase(c, g)
           [] wf = "CriticWorkflow" /\ phase = "validation" -> CriticValidationPhase(c, g)
           [] wf = "CriticWorkflow" /\ phase = "output" -> CriticOutputPhase(c, g)
    ELSE CASE phase = "initialization" -> BaseInitializationPhase(c, g)
           [] phase = "parameters" -> BaseParametersPhase(c, g)
           [] phase = "workflow" -> BaseWorkflowPhase(c, g)
           [] phase = "validation" -> BaseValidationPhase(c, g)
           [] phase = "output" -> BaseOutputPhase(c, g)

\* A plausible slip: only the workflow's own methods are looked up, and the
\* default stands in for every phase the workflow does not override.
executePhaseOwnOnly(wf, phase, c, g) ==
    IF phase \in Overrides(wf)
    THEN Method(wf, phase, c, g)
    ELSE Return(c, g, [status |-> "completed", phase |-> phase])

\* BaseWorkflow.executePhase: the handler named after the phase, or the default.
executePhase(wf, phase, c, g) ==
    IF phase \in Overrides(wf) \cup BaseMethods
    THEN Method(wf, phase, c, g)
    ELSE Return(c, g, [status |-> "completed", phase |-> phase])

\* ------------------------------------------------------------ a dispatch
\* The ExecutionContext built by executeCommand; an unset property is undefined.
NewContext(command, params, globalContext, save, context) ==
    [command |-> command, params |-> params, globalContext |-> globalContext,
     save |-> save, context |-> context, args |-> Undefined,
     phaseResults |-> << >>, result |-> Undefined,
     personality |-> "", sourceContent |-> Undefined,
     previousCritique |-> Undefined, critique |-> Undefined]

NoContext == NewContext(<< >>, << >>, Undefined, Undefined, Undefined)

\* A slot of the caller: the call made, its context, and its promise.
\*   st      "idle", "running" (pending), "resolved" or "rejected"
\*   via     "dispatch" (Orchestrator.executeCommand) or "direct" (Workflow.execute)
\*   entered whether Workflow.execute was entered
\*   log     the phases whose handler was invoked ("Phase: <name>", in order)
\*   thrown  the error a phase handler threw, thrownBy that phase
\*   error   the error the caller's promise rejected with
\*   value   the value the caller's promise resolved to
IdleSlot ==
    [st |-> "idle", via |-> "none", command |-> << >>, params |-> << >>,
     wf |-> "none", entered |-> FALSE, c |-> NoContext, log |-> << >>,
     thrown |-> NoError, thrownBy |-> "none", error |-> NoError, value |-> Undefined]

\* A plausible slip: the catch block wraps what it caught in a new error.
RethrowWrapped(error) == Err("Error", << "Workflow execution failed: " >> \o error.message)

\* BaseWorkflow.execute's catch block: it rethrows the error it caught.
Rethrow(error) == error

\* A plausible slip: a throwing handler is logged and the loop goes on.
executePipelineStepSwallowing(slot, g) ==
    LET phase == phases[Len(slot.log) + 1]
        r == executePhase(slot.wf, phase, slot.c, g)
    IN  [slot |-> [slot EXCEPT !.c = [r.c EXCEPT !.phaseResults = Put(@, phase, r.ret)],
                               !.log = Append(@, phase),
                               !.thrown = IF r.err # NoError THEN r.err ELSE @,
                               !.thrownBy = IF r.err # NoError THEN phase ELSE @],
         g |-> r.g]

\* BaseWorkflow.executePipeline, one turn of its loop: the next phase's handler
\* runs; its result is stored under the phase's name, its throw ends the
\* pipeline and rejects execute with the error rethrown.
executePipelineStep(slot, g) ==
    LET phase == phases[Len(slot.log) + 1]
        r == executePhase(slot.wf, phase, slot.c, g)
    IN  IF r.err # NoError
        THEN [slot |-> [slot EXCEPT !.st = "rejected", !.c = r.c,
                                    !.log = Append(@, phase),
                                    !.thrown = r.err, !.thrownBy = phase,
                                    !.error = Rethrow(r.err)],
              g |-> r.g]
        ELSE [slot |-> [slot EXCEPT !.c = [r.c EXCEPT !.phaseResults =
                                              Put(@, phase, r.ret)],
                                    !.log = Append(@, phase)],
              g |-> r.g]

\* BaseWorkflow.execute: executePipeline resets phaseResults and starts its loop.
execute(slot, g) ==
    executePipelineStep([slot EXCEPT !.entered = TRUE, !.c.phaseResults = << >>], g)

\* A plausible slip: the aggregate map is returned whatever the phases set.
PipelineResultAggregate(c) == c.phaseResults

\* BaseWorkflow.executePipeline's return value.
PipelineResult(c) == IF Truthy(c.result) THEN c.result ELSE c.phaseResults

\* A plausible slip: the category is taken from the end of the command.
CategoryFromEnd(command) == Split(command)[Len(Split(command))]

\* const [category] = command.split(':')
Category(command) == Split(command)[1]

\* Orchestrator.executeCommand up to the first phase: the global parameters,
\* the lookup by category, the support check, the context, workflow.execute.
executeCommand(command, params, g, wfs) ==
    LET save == Get(params, "save")
        p1 == IF Truthy(save) THEN Delete(params, "save") ELSE params
        context == Get(p1, "context")
        g1 == IF Truthy(context) THEN Push(g, Entry(command, context)) ELSE g
        p2 == IF Truthy(context) THEN Delete(p1, "context") ELSE p1
        category == Category(command)
        slot == [IdleSlot EXCEPT !.st = "running", !.via = "dispatch",
                                 !.command = command, !.params = params]
    IN  IF category \notin DOMAIN wfs
        THEN [slot |-> [slot EXCEPT !.st = "rejected",
                           !.error = Err("Error", << "No workflow found for category: ", category >>)],
              g |-> g1]
        ELSE IF ~isSupportedCommand(wfs[category], command)
        THEN [slot |-> [slot EXCEPT !.st = "rejected",
                           !.error = Err("Error", << "Command not supported: " >> \o command)],
              g |-> g1]
        ELSE execute([slot EXCEPT !.wf = wfs[category],
                         !.c = NewContext(command, p2, [ref |-> g1.contextRef],
                                          IF Truthy(save) THEN save ELSE Undefined,
                                          IF Truthy(context) THEN context ELSE Undefined)],
                     g1)

\* The record savePipelineData serializes.
PipelineData(c, result) ==
    [command |-> c.command, params |-> c.params,
     globalParams |-> [save |-> c.save, context |-> c.context],
     phaseResults |-> c.phaseResults, result |-> result, timestamp |-> Timestamp]

\* The error fs.mkdirSync / fs.writeFileSync throws when the write fails.
WriteError == Err("Error", << "EACCES: permission denied" >>)

\* ------------------------------------------------------------ the caller's inputs
NoParams == << >>
Merge(p, f) == [k \in DOMAIN p \cup DOMAIN f |-> IF k \in DOMAIN f THEN f[k] ELSE p[k]]

TxtHi == Str(<< "hi" >>, 2)
TxtNote == Str(<< "note" >>, 4)
TxtHello == Str(<< "hello" >>, 5)
TxtLong == Str(<< "x", "...", "x" >>, ContextMax + 1)
TxtEmpty == Str(<< >>, 0)
PathGood == Str(<< "/", "tmp/trace", ".json" >>, 15)
PathRelative == Str(<< "tmp/trace", ".json" >>, 14)

\* The positional tokens of a call, an array of strings, and the length of
\* their text joined by spaces.
Tokens(items, n) == [t |-> "array", items |-> items, len |-> n]

\* The global flags a call may carry besides the command's own.
GlobalFlags ==
    { NoParams,
      [context |-> TxtNote],
      [context |-> TxtLong],
      [save |-> PathGood],
      [save |-> PathRelative] }

\* The flags each command is called with.
OwnParams(command) ==
    CASE command = Cmd("message", "new") ->
            { NoParams, [message |-> TxtHi, to |-> DefaultAgent],
              [message |-> TxtHi], [message |-> TxtEmpty],
              [args |-> Tokens(<< "hello", "world" >>, 11)] }
      [] command = Cmd("message", "read") -> { NoParams, [count |-> Num(2)] }
      [] command = Cmd("system", "health") -> { NoParams, [verbose |-> Bool(TRUE)] }
      [] command = Cmd("system", "manifest") -> { NoParams, [format |-> Str(<< "json" >>, 4)] }
      [] command = Cmd("agent", "switch") ->
            { NoParams, [name |-> Str(<< "casual-critic" >>, 13)],
              [name |-> Str(<< "ghost" >>, 5)] }
      [] command = Cmd("meta", "context") ->
            { NoParams, [add |-> TxtNote], [add |-> TxtLong], [add |-> TxtEmpty],
              [list |-> Bool(TRUE)],
              [clear |-> Bool(TRUE)], [add |-> TxtNote, clear |-> Bool(TRUE)],
              [list |-> Bool(TRUE), clear |-> Bool(TRUE)] }
      [] command \in supportedCommands("CriticWorkflow") ->
            { NoParams, [source |-> TxtNote],
              [source |-> Str(<< "/", "notes.txt" >>, 10), domain |-> Str(<< "thoughts" >>, 8)] }
      [] command = Cmd("output", "verbosity") ->
            { NoParams, [level |-> Str(<< "extreme" >>, 7)], [level |-> Str(<< "low" >>, 3)],
              [level |-> Str(<< "high" >>, 4)] }
      [] command = Cmd("output", "format") ->
            { NoParams, [type |-> Str(<< "xml" >>, 3)], [type |-> Str(<< "json" >>, 4)] }
      [] OTHER -> { NoParams }

\* The well-formed call of each command, on which the global flags ride.
MainParams(command) ==
    CASE command = Cmd("message", "new") -> [message |-> TxtHi, to |-> DefaultAgent]
      [] command = Cmd("agent", "switch") -> [name |-> Str(<< "casual-critic" >>, 13)]
      [] command = Cmd("meta", "context") -> [list |-> Bool(TRUE)]
      [] command \in supportedCommands("CriticWorkflow") -> [source |-> TxtNote]
      [] command = Cmd("output", "verbosity") -> [level |-> Str(<< "extreme" >>, 7)]
      [] command = Cmd("output", "format") -> [type |-> Str(<< "json" >>, 4)]
      [] OTHER -> NoParams

\* The command strings a caller passes: every declared command, the commands
\* of the unregistered output category, and malformed ones.
Commands ==
    UNION { supportedCommands(wf) :
              wf \in {"MessageWorkflow", "SystemWorkflow", "AgentWorkflow",
                      "MetaWorkflow", "CriticWorkflow", "OutputWorkflow"} }
    \cup { Cmd("bogus", "foo"), Cmd("message", "bogus"), << "message" >>,
           << "message", ":", "new", ":", "x" >> }

Calls ==
    UNION { { [command |-> command, params |-> p] : p \in OwnParams(command) }
            \cup { [command |-> command, params |-> Merge(MainParams(command), f)] :
                      f \in GlobalFlags } : command \in Commands }

\* The calls made on an OutputWorkflow directly: execute({command, params}).
DirectCalls ==
    UNION { { [command |-> command, params |-> p] : p \in OwnParams(command) } :
              command \in supportedCommands("OutputWorkflow") }

\* ------------------------------------------------------------ the state machine
Init ==
    /\ workflows = initialize
    /\ settings = loadDefaultSettings
    /\ heap = << << >> >>
    /\ contextRef = 1
    /\ agents = {}
    /\ templates = {}
    /\ files = << >>
    /\ disp = [d \in Slots |-> IdleSlot]
    /\ calls = 0

SetGlobals(g) ==
    /\ settings' = g.settings
    /\ heap' = g.heap
    /\ contextRef' = g.contextRef
    /\ agents' = g.agents
    /\ templates' = g.templates

Pending(d) == disp[d].st = "running"

\* The caller awaits each call: a call is made when none is pending, in the
\* first slot.
MayCall(d) ==
    /\ calls < MaxCalls
    /\ \A e \in Slots : ~Pending(e)
    /\ d = 1

\* The caller calls orchestrator.executeCommand(command, params).
ExecuteCommand(d) ==
    /\ MayCall(d)
    /\ \E call \in Calls :
          LET r == executeCommand(call.command, call.params, Globals, workflows)
          IN  /\ disp' = [disp EXCEPT ![d] = r.slot]
              /\ SetGlobals(r.g)
    /\ calls' = calls + 1
    /\ UNCHANGED << workflows, files >>

\* The caller calls execute({command, params}) on an OutputWorkflow it built
\* over the orchestrator, the class no Orchestrator.initialize registers.
ExecuteDirect(d) ==
    /\ MayCall(d)
    /\ \E call \in DirectCalls :
          LET r == execute([IdleSlot EXCEPT !.st = "running", !.via = "direct",
                               !.command = call.command, !.params = call.params,
                               !.wf = "OutputWorkflow",
                               !.c = NewContext(call.command, call.params,
                                                Undefined, Undefined, Undefined)],
                           Globals)
          IN  /\ disp' = [disp EXCEPT ![d] = r.slot]
              /\ SetGlobals(r.g)
    /\ calls' = calls + 1
    /\ UNCHANGED << workflows, files >>

\* The pipeline of a pending dispatch resumes with its next phase.
NextPhase(d) ==
    /\ Pending(d)
    /\ Len(disp[d].log) < Len(phases)
    /\ LET r == executePipelineStep(disp[d], Globals)
       IN  /\ disp' = [disp EXCEPT ![d] = r.slot]
           /\ SetGlobals(r.g)
    /\ UNCHANGED << workflows, files, calls >>

\* A plausible slip: a failed write of the trace is logged and not rethrown.
FinishSwallowingWriteError(d) ==
    /\ Pending(d)
    /\ Len(disp[d].log) = Len(phases)
    /\ LET slot == disp[d]
           result == PipelineResult(slot.c)
       IN  /\ \/ files' = files
              \/ /\ slot.via = "dispatch" /\ Truthy(slot.c.save)
                 /\ files' = Put(files, slot.c.save, PipelineData(slot.c, result))
           /\ disp' = [disp EXCEPT ![d].st = "resolved", ![d].value = result]
    /\ UNCHANGED << workflows, settings, heap, contextRef, agents, templates, calls >>

\* The pipeline has run its five phases: execute returns; executeCommand writes
\* the trace when --save was given (the write succeeds or throws) and returns.
Finish(d) ==
    /\ Pending(d)
    /\ Len(disp[d].log) = Len(phases)
    /\ LET slot == disp[d]
           result == PipelineResult(slot.c)
       IN  IF slot.via = "dispatch" /\ Truthy(slot.c.save)
           THEN \/ /\ files' = Put(files, slot.c.save, PipelineData(slot.c, result))
                   /\ disp' = [disp EXCEPT ![d].st = "resolved", ![d].value = result]
                \/ /\ files' = files
                   /\ disp' = [disp EXCEPT ![d].st = "rejected", ![d].error = WriteError]
           ELSE /\ files' = files
                /\ disp' = [disp EXCEPT ![d].st = "resolved", ![d].value = result]
    /\ UNCHANGED << workflows, settings, heap, contextRef, agents, templates, calls >>

Next ==
    \E d \in Slots :
        \/ ExecuteCommand(d)
        \/ ExecuteDirect(d)
        \/ NextPhase(d)
        \/ Finish(d)

Spec == Init /\ [][Next]_vars

\* ------------------------------------------------------------ the claims
\* Vocabulary of the claims.
Dispatched(d) == disp[d].via = "dispatch"
Settled(d) == disp[d].st \in {"resolved", "rejected"}
IsPrefix(s, t) == Len(s) <= Len(t) /\ s = SubSeq(t, 1, Len(s))
PhaseIndex(phase) == CHOOSE i \in 1 .. Len(phases) : phases[i] = phase
Ran(d, phase) == \E i \in 1 .. Len(disp[d].log) : disp[d].log[i] = phase
\* The text of a command before its first ':'.
CategoryOf(command) ==
    IF Len(command) = 0 \/ command[1] = ":" THEN "" ELSE command[1]
UnknownCategoryError(category) ==
    Err("Error", << "No workflow found for category: ", category >>)
UnsupportedCommandError(command) ==
    Err("Error", << "Command not supported: " >> \o command)
TheFivePhases == << "initialization", "parameters", "workflow", "validation", "output" >>

C2_UnknownCategory ==
    \A d \in Slots :
        (Dispatched(d) /\ CategoryOf(disp[d].command) \notin DOMAIN workflows) =>
            /\ disp[d].st = "rejected"
            /\ disp[d].error = UnknownCategoryError(CategoryOf(disp[d].command))
            /\ ~disp[d].entered
            /\ disp[d].log = << >>

\* "bogus:foo" was dispatched and rejected with a message naming bogus.
C2_Witness ==
    \E d \in Slots :
        /\ Dispatched(d) /\ disp[d].command = << "bogus", ":", "foo" >>
        /\ disp[d].st = "rejected"
        /\ disp[d].error.message = << "No workflow found for category: ", "bogus" >>

\* C3: a command of a registered category that the workflow does not declare
\* (an undeclared action, no ':', more than one ':') is rejected as unsupported
\* and Workflow.execute is not entered; execute is entered for declared
\* commands only.
C3_UnsupportedCommand ==
    \A d \in Slots :
        Dispatched(d) =>
            /\ (/\ CategoryOf(disp[d].command) \in DOMAIN workflows
                /\ disp[d].command \notin
                      supportedCommands(workflows[CategoryOf(disp[d].command)])) =>
                  /\ disp[d].st = "rejected"
                  /\ disp[d].error = UnsupportedCommandError(disp[d].command)
                  /\ ~disp[d].entered
                  /\ disp[d].log = << >>
            /\ disp[d].entered =>
                  /\ disp[d].wf \in { workflows[k] : k \in DOMAIN workflows }
                  /\ disp[d].command \in supportedCommands(disp[d].wf)

\* A command with two ':' in the registered message category was rejected as
\* unsupported.
C3_Witness ==
    \E d \in Slots :
        /\ Dispatched(d)
        /\ disp[d].command = << "message", ":", "new", ":", "x" >>
        /\ disp[d].st = "rejected"
        /\ disp[d].error = UnsupportedCommandError(disp[d].command)
        /\ ~disp[d].entered

\* C4: a dispatch rejected with the unknown-category or the unsupported-command
\* error leaves the Global Context Store and the Session Settings as they were
\* before the call.
C4_RejectedRoutingHasNoSideEffect ==
    [][ \A d \in Slots :
          (/\ disp'[d] # disp[d]
           /\ disp'[d].via = "dispatch"
           /\ disp'[d].st = "rejected"
           /\ disp'[d].error \in { UnknownCategoryError(CategoryOf(disp'[d].command)),
                                   UnsupportedCommandError(disp'[d].command) })
          => /\ heap' = heap
             /\ contextRef' = contextRef
             /\ settings' = settings ]_vars

\* C5: when a phase handler throws, no later phase runs, nothing is returned,
\* and the caller's promise rejects with the very error the phase threw.
C5_ThrowAbortsAndPropagates ==
    \A d \in Slots :
        disp[d].thrownBy # "none" =>
            /\ disp[d].st = "rejected"
            /\ disp[d].error = disp[d].thrown
            /\ disp[d].value = Undefined
            /\ Len(disp[d].log) = PhaseIndex(disp[d].thrownBy)
            /\ disp[d].log[Len(disp[d].log)] = disp[d].thrownBy

\* The parameters phase threw on a relative save path and the caller got that
\* error.
C5_Witness ==
    \E d \in Slots :
        /\ Dispatched(d) /\ disp[d].thrownBy = "parameters"
        /\ disp[d].st = "rejected"
        /\ disp[d].error = Err("Error", << "Save path must be absolute and end with .json" >>)

\* A save value the parameters phase must refuse, a context text it must refuse.
MalformedSave(v) == Truthy(v) /\ ~(StartsWith(v, "/") /\ EndsWith(v, ".json"))
TooLongContext(v) == Truthy(v) /\ v.len > 1000

\* C6: for every command of every registered workflow, a malformed save path
\* or a context text of more than 1000 characters makes the parameters phase
\* throw, so the workflow phase never runs in that dispatch.
C6_GlobalParametersCheckedForEveryCommand ==
    \A d \in Slots :
        (/\ Dispatched(d) /\ disp[d].entered
         /\ \/ MalformedSave(Get(disp[d].params, "save"))
            \/ TooLongContext(Get(disp[d].params, "context")))
        => /\ ~Ran(d, "workflow")
           /\ Ran(d, "parameters") => disp[d].thrownBy = "parameters"

\* C7: every dispatch that resolves, resolves to the object the action's
\* handler produced: {success: true, action: <string>, ...payload}.
C7_ResultContract ==
    \A d \in Slots :
        (Dispatched(d) /\ disp[d].st = "resolved") =>
            /\ IsObject(disp[d].value)
            /\ {"success", "action"} \subseteq DOMAIN disp[d].value
            /\ disp[d].value.success = TRUE

\* C8: message:new with a message m and a target t resolves to
\* {success: true, action: "created", message: {content: m, to: t, ...}}.
C8_MessageNewResolves ==
    \A d \in Slots :
        (/\ Dispatched(d) /\ Settled(d)
         /\ disp[d].command = << "message", ":", "new" >>
         /\ DOMAIN disp[d].params = {"message", "to"}
         /\ Truthy(disp[d].params.message) /\ Truthy(disp[d].params.to))
        => /\ disp[d].st = "resolved"
           /\ IsObject(disp[d].value)
           /\ {"success", "action", "message"} \subseteq DOMAIN disp[d].value
           /\ disp[d].value.success = TRUE
           /\ disp[d].value.action = "created"
           /\ disp[d].value.message.content = disp[d].params.message
           /\ disp[d].value.message.to = disp[d].params.to

VerbosityEnum == { Str(<< v >>, n) : << v, n >> \in
                     { << "low", 3 >>, << "medium", 6 >>, << "high", 4 >>, << "off", 3 >> } }
FormatEnum == { Str(<< v >>, n) : << v, n >> \in
                  { << "json", 4 >>, << "markdown", 8 >>, << "text", 4 >> } }

\* A call that sets verbosity or format to a value outside its enumeration
\* (no value included), through the Orchestrator or on the workflow itself.
InvalidSet(slot) ==
    \/ /\ slot.command = << "output", ":", "verbosity" >>
       /\ Get(slot.params, "level") \notin VerbosityEnum
    \/ /\ slot.command = << "output", ":", "format" >>
       /\ Get(slot.params, "type") \notin FormatEnum

\* C9: the Session Settings always hold a verbosity and a format of their
\* enumerations; a set to a value outside the enumeration never resolves, ends
\* rejected, and no step of it changes the Session Settings.
C9_SettingsEnumerations ==
    /\ [](/\ settings.verbosity \in VerbosityEnum
          /\ settings.format \in FormatEnum
          /\ \A d \in Slots :
                (InvalidSet(disp[d]) /\ Settled(d)) =>
                    disp[d].st = "rejected" /\ disp[d].error # NoError)
    /\ [][ \A d \in Slots :
             (disp'[d] # disp[d] /\ InvalidSet(disp'[d])) => settings' = settings ]_vars

\* The OutputWorkflow refused the level "extreme" and verbosity is still "off",
\* after a valid set had changed the format.
C9_Witness ==
    \E d \in Slots :
        /\ disp[d].via = "direct" /\ disp[d].st = "rejected"
        /\ disp[d].thrownBy = "workflow"
        /\ disp[d].command = << "output", ":", "verbosity" >>
        /\ Get(disp[d].params, "level") = Str(<< "extreme" >>, 7)
        /\ settings.verbosity = Str(<< "off" >>, 3)
        /\ settings.format = Str(<< "json" >>, 4)

\* C10: "output:verbosity" dispatched through the Orchestrator with a level
\* outside the enumeration rejects with a message listing low, medium, high, off.
C10_DispatchedVerbosityListsLevels ==
    \A d \in Slots :
        (/\ Dispatched(d) /\ Settled(d)
         /\ disp[d].command = << "output", ":", "verbosity" >>
         /\ Get(disp[d].params, "level") \notin VerbosityEnum)
        => /\ disp[d].st = "rejected"
           /\ \A v \in {"low", "medium", "high", "off"} :
                 \E i \in 1 .. Len(disp[d].error.message) : disp[d].error.message[i] = v

\* ------------------------------------------------------------ a session
\* A caller that awaits each call and keeps the promises of its last calls:
\* call number k is made in slot (k mod NumSlots) + 1.
MaxSessionCalls == 4

\* The calls of a session: the store's operations, a command carrying the
\* global context flag, and the commands that change the Session Settings.
SessionCalls ==
    { [command |-> Cmd("meta", "context"), params |-> [add |-> TxtHello]],
      [command |-> Cmd("meta", "context"), params |-> [add |-> TxtNote]],
      [command |-> Cmd("meta", "context"), params |-> [list |-> Bool(TRUE)]],
      [command |-> Cmd("meta", "context"), params |-> [clear |-> Bool(TRUE)]],
      [command |-> Cmd("system", "on"), params |-> [context |-> TxtNote]],
      [command |-> Cmd("agent", "switch"), params |-> [name |-> Str(<< "casual-critic" >>, 13)]],
      [command |-> Cmd("agent", "reset"), params |-> NoParams] }

SessionDirectCalls ==
    { [command |-> Cmd("output", "format"), params |-> [type |-> Str(<< "json" >>, 4)]] }

MaySessionCall(d) ==
    /\ calls < MaxSessionCalls
    /\ \A e \in Slots : ~Pending(e)
    /\ d = (calls % NumSlots) + 1

\* The caller calls orchestrator.executeCommand(command, params).
SessionCommand(d) ==
    /\ MaySessionCall(d)
    /\ \E call \in SessionCalls :
          LET r == executeCommand(call.command, call.params, Globals, workflows)
          IN  /\ disp' = [disp EXCEPT ![d] = r.slot]
              /\ SetGlobals(r.g)
    /\ calls' = calls + 1
    /\ UNCHANGED << workflows, files >>

\* The caller calls execute({command, params}) on an OutputWorkflow.
SessionDirect(d) ==
    /\ MaySessionCall(d)
    /\ \E call \in SessionDirectCalls :
          LET r == execute([IdleSlot EXCEPT !.st = "running", !.via = "direct",
                               !.command = call.command, !.params = call.params,
                               !.wf = "OutputWorkflow",
                               !.c = NewContext(call.command, call.params,
                                                Undefined, Undefined, Undefined)],
                           Globals)
          IN  /\ disp' = [disp EXCEPT ![d] = r.slot]
              /\ SetGlobals(r.g)
    /\ calls' = calls + 1
    /\ UNCHANGED << workflows, files >>

NextSession ==
    \E d \in Slots :
        \/ SessionCommand(d)
        \/ SessionDirect(d)
        \/ NextPhase(d)
        \/ Finish(d)

SpecSession == Init /\ [][NextSession]_vars

\* The slot of the session's latest call, and of the call before it.
Latest(d) == calls > 0 /\ d = ((calls - 1) % NumSlots) + 1
Previous(d) == calls > 1 /\ d = ((calls - 2) % NumSlots) + 1

\* ------------------------------------------------------------ claims on the store
\* The Global Context Store: the array Orchestrator.context holds.
Store == heap[contextRef]
MetaContext == << "meta", ":", "context" >>
\* In this step dispatch d ran its workflow phase, which returned.
WorkflowPhaseReturned(d) ==
    /\ Len(disp[d].log) = 2
    /\ Len(disp'[d].log) = 3
    /\ disp'[d].thrownBy = "none"
\* What the workflow phase of dispatch d returned.
WorkflowResult(slot) == slot.c.phaseResults["workflow"]
\* The operation a meta:context call asks for: add, else list, else clear.
StoreOp(params) ==
    IF Truthy(Get(params, "add")) THEN "add"
    ELSE IF Truthy(Get(params, "list")) THEN "list"
    ELSE IF Truthy(Get(params, "clear")) THEN "clear"
    ELSE "none"
ResolvedOp(d, op) ==
    /\ Dispatched(d) /\ disp[d].st = "resolved"
    /\ disp[d].command = MetaContext
    /\ StoreOp(disp[d].params) = op

\* C11: on the Global Context Store, add appends exactly the entry with the
\* added content, list yields the store's entries as they are, and clear
\* returns the number of entries the store held immediately before it and
\* leaves the store empty; so a list right after an add ends with the added
\* entry, and a list right after a clear is empty.
C11_StoreContract ==
    /\ [][ \A d \in Slots :
             (WorkflowPhaseReturned(d) /\ disp'[d].command = MetaContext) =>
                LET ret == WorkflowResult(disp'[d])
                    op == StoreOp(disp'[d].params)
                IN  /\ op = "add" =>
                          /\ Len(heap'[contextRef']) = Len(heap[contextRef]) + 1
                          /\ SubSeq(heap'[contextRef'], 1, Len(heap[contextRef])) = heap[contextRef]
                          /\ heap'[contextRef'][Len(heap'[contextRef'])].content = disp'[d].params.add
                    /\ op = "list" =>
                          /\ heap'[ret.context.ref] = heap[contextRef]
                          /\ heap'[contextRef'] = heap[contextRef]
                    /\ op = "clear" =>
                          /\ ret.clearedCount = Len(heap[contextRef])
                          /\ heap'[contextRef'] = << >> ]_vars
    /\ [](\A d, e \in Slots :
             (Latest(d) /\ Previous(e) /\ ResolvedOp(d, "list")) =>
                LET listed == heap[WorkflowResult(disp[d]).context.ref]
                IN  /\ listed = Store
                    /\ ResolvedOp(e, "add") =>
                          /\ Len(listed) > 0
                          /\ listed[Len(listed)].content = disp[e].params.add
                          /\ calls = 2 =>
                                (Len(listed) = 1 /\ listed[1].content = disp[e].params.add)
                    /\ ResolvedOp(e, "clear") =>
                          /\ listed = << >>
                          /\ WorkflowResult(disp[e]).clearedCount
                                = Len(heap[contextRef - 1]))

\* "hello" was added to the empty store, clear returned 1, and the list after
\* it is empty.
C11_Witness ==
    \E d, e \in Slots :
        /\ Latest(d) /\ Previous(e)
        /\ ResolvedOp(e, "clear") /\ WorkflowResult(disp[e]).clearedCount = 1
        /\ heap[1] = << [command |-> MetaContext, content |-> Str(<< "hello" >>, 5),
                         timestamp |-> "now"] >>
        /\ ResolvedOp(d, "list")
        /\ heap[WorkflowResult(disp[d]).context.ref] = << >>

\* The array a dispatch's context.globalContext refers to.
GlobalContextOf(slot) == heap[slot.c.globalContext.ref]
\* The text a settled dispatch added to the store: by meta:context --add, or
\* by the global context flag of any command.
Added(slot) ==
    IF Truthy(Get(slot.params, "context")) THEN slot.params.context
    ELSE slot.params.add
Adds(d) ==
    /\ Dispatched(d) /\ Settled(d)
    /\ \/ Truthy(Get(disp[d].params, "context"))
       \/ ResolvedOp(d, "add")
HasContent(list, text) == \E i \in 1 .. Len(list) : list[i].content = text

\* C12: the entries of the store persist across dispatches in insertion order:
\* a step either leaves the store's entries, appends one entry at the end, or
\* (the workflow phase of a clear) empties it; a dispatch that enters a workflow
\* gets the store, with every entry added since the last clear, as its
\* globalContext; so the dispatch after one that added X sees X, and a list
\* after it returns an entry with content X.
C12_StorePersistsInOrder ==
    /\ [][ /\ \/ IsPrefix(heap[contextRef], heap'[contextRef'])
                 /\ Len(heap'[contextRef']) <= Len(heap[contextRef]) + 1
              \/ /\ heap'[contextRef'] = << >>
                 /\ \E d \in Slots :
                       /\ WorkflowPhaseReturned(d)
                       /\ disp'[d].command = MetaContext
                       /\ StoreOp(disp'[d].params) = "clear"
           /\ \A d \in Slots :
                 (calls' # calls /\ disp'[d] # disp[d] /\ disp'[d].via = "dispatch"
                    /\ disp'[d].entered)
                 => /\ disp'[d].c.globalContext.ref = contextRef'
                    /\ IsPrefix(heap[contextRef], heap'[disp'[d].c.globalContext.ref]) ]_vars
    /\ [](\A d, e \in Slots :
             (Latest(d) /\ Previous(e) /\ Adds(e) /\ Dispatched(d) /\ disp[d].entered) =>
                /\ HasContent(GlobalContextOf(disp[d]), Added(disp[e]))
                /\ ResolvedOp(d, "list") =>
                      HasContent(heap[WorkflowResult(disp[d]).context.ref], Added(disp[e])))

\* "hello" was added by meta:context, "note" by the context flag of system:on,
\* and the list after them returned the two entries in that order.
C12_Witness ==
    \E d, e \in Slots :
        /\ Latest(d) /\ Previous(e)
        /\ disp[e].command = << "system", ":", "on" >> /\ disp[e].st = "resolved"
        /\ ResolvedOp(d, "list")
        /\ heap[WorkflowResult(disp[d]).context.ref] =
              << [command |-> MetaContext, content |-> Str(<< "hello" >>, 5), timestamp |-> "now"],
                 [command |-> << "system", ":", "on" >>, content |-> Str(<< "note" >>, 4),
                  timestamp |-> "now"] >>
        /\ GlobalContextOf(disp[d]) = heap[WorkflowResult(disp[d]).context.ref]

\* C13: in every reachable state every entry of the Global Context Store has a
\* content of at most 1000 characters, whichever way it was added.
C13_StoreEntriesAtMost1000 ==
    \A i \in 1 .. Len(Store) : Store[i].content.len <= 1000

\* C14: the trace is written to the save path only after a successful
\* execution: a step writes a file only when it ends a dispatch that carried a
\* well-formed save path and whose five phases all returned; a dispatch with
\* save and five returned phases ends with the write (done, or failed and
\* thrown); a dispatch whose save path is malformed never runs its workflow
\* phase and writes nothing.
C14_TraceWrittenOnlyAfterSuccess ==
    /\ [][ files' # files =>
              \E d \in Slots :
                  /\ disp[d].st = "running" /\ disp'[d].st = "resolved"
                  /\ disp[d].log = TheFivePhases /\ disp[d].thrownBy = "none"
                  /\ Truthy(Get(disp[d].params, "save"))
                  /\ ~MalformedSave(Get(disp[d].params, "save"))
                  /\ DOMAIN files' = DOMAIN files \cup {disp[d].params.save} ]_vars
    /\ [][ \A d \in Slots :
              (/\ disp[d].st = "running" /\ disp'[d].st # "running"
               /\ disp[d].via = "dispatch"
               /\ disp[d].log = TheFivePhases /\ disp[d].thrownBy = "none"
               /\ Truthy(Get(disp[d].params, "save")))
              => \/ files' # files \/ disp[d].params.save \in DOMAIN files
                 \/ disp'[d].error = WriteError ]_vars
    /\ [](\A d \in Slots :
              (Dispatched(d) /\ MalformedSave(Get(disp[d].params, "save"))) =>
                  /\ ~Ran(d, "workflow")
                  /\ disp[d].params.save \notin DOMAIN files)

\* ------------------------------------------------------------ claims on the settings
\* The documented defaults of the Session Settings.
DocumentedDefaults ==
    [activeAgent |-> [t |-> "string", s |-> << "discussion-moderator" >>, len |-> 20],
     verbosity |-> [t |-> "string", s |-> << "off" >>, len |-> 3],
     format |-> [t |-> "string", s |-> << "text" >>, len |-> 4]]
AgentReset == << "agent", ":", "reset" >>

\* C15: the Orchestrator holds the documented defaults right after
\* construction, and they are the Session Settings from the workflow phase of
\* an agent:reset on, through its resolution, until the next call: whatever
\* the settings were before.
C15_ResetRestoresDefaults ==
    /\ (calls = 0 => settings = DocumentedDefaults)
    /\ \A d \in Slots :
          (Latest(d) /\ Dispatched(d) /\ disp[d].command = AgentReset) =>
              /\ disp[d].st # "rejected"
              /\ Ran(d, "workflow") => settings = DocumentedDefaults

\* agent:reset resolved, as the third call or later, right after a switch to
\* casual-critic had resolved.
C15_Witness ==
    \E d, e \in Slots :
        /\ Latest(d) /\ Previous(e)
        /\ disp[e].command = << "agent", ":", "switch" >> /\ disp[e].st = "resolved"
        /\ WorkflowResult(disp[e]).agent = Str(<< "casual-critic" >>, 13)
        /\ disp[d].command = AgentReset /\ disp[d].st = "resolved"
        /\ calls >= 3
        /\ settings = DocumentedDefaults

\* The names for which a persona file exists.
Personas == { << "discussion-moderator" >>, << "casual-critic" >> }
AgentSwitch == << "agent", ":", "switch" >>
\* An agent:switch with no name, or a name without a persona file.
BadSwitch(slot) ==
    /\ slot.command = AgentSwitch
    /\ \/ ~Truthy(Get(slot.params, "name"))
       \/ slot.params.name.s \notin Personas

\* C16: activeAgent is always the default or a name that has a persona; an
\* agent:switch with a missing name or a name without persona ends rejected
\* by its workflow phase, and no step of it changes activeAgent.
C16_SwitchChecksBeforeMutating ==
    /\ [](/\ \/ settings.activeAgent = DocumentedDefaults.activeAgent
             \/ settings.activeAgent.s \in Personas
          /\ \A d \in Slots :
                (Dispatched(d) /\ BadSwitch(disp[d]) /\ Settled(d)) =>
                    disp[d].st = "rejected" /\ disp[d].thrownBy = "workflow")
    /\ [][ \A d \in Slots :
             (disp'[d] # disp[d] /\ BadSwitch(disp'[d])) =>
                 settings'.activeAgent = settings.activeAgent ]_vars

\* A switch to "ghost" was rejected while the active agent was casual-critic,
\* set by an earlier switch, and it still is.
C16_Witness ==
    \E d \in Slots :
        /\ Dispatched(d) /\ disp[d].command = AgentSwitch
        /\ Get(disp[d].params, "name") = Str(<< "ghost" >>, 5)
        /\ disp[d].st = "rejected"
        /\ disp[d].error.message = << "Agent \"", "ghost", "\" not found" >>
        /\ settings.activeAgent = Str(<< "casual-critic" >>, 13)

\* The commands dedicated to changing the Session Settings.
SettingsCommands ==
    { << "agent", ":", "switch" >>, << "agent", ":", "reset" >>,
      << "output", ":", "verbosity" >>, << "output", ":", "format" >> }

\* C17: the Session Settings change only in a step of a call of agent:switch,
\* agent:reset, output:verbosity or output:format; every step of a call of
\* any other command, resolving or rejecting, leaves the three settings as
\* they were.
C17_SettingsOnlyByDedicatedCommands ==
    [][ /\ \A d \in Slots :
              (disp'[d] # disp[d] /\ disp'[d].command \notin SettingsCommands) =>
                  /\ settings'.activeAgent = settings.activeAgent
                  /\ settings'.verbosity = settings.verbosity
                  /\ settings'.format = settings.format
        /\ settings' # settings =>
              \E d \in Slots : disp'[d] # disp[d] /\ disp'[d].command \in SettingsCommands ]_vars

\* system:manifest --format json resolved while the active agent was
\* casual-critic, and the settings' format is still text.
C17_Witness ==
    \E d \in Slots :
        /\ Dispatched(d) /\ disp[d].st = "resolved"
        /\ disp[d].command = << "system", ":", "manifest" >>
        /\ Get(disp[d].params, "format") = Str(<< "json" >>, 4)
        /\ settings.activeAgent = Str(<< "casual-critic" >>, 13)
        /\ settings.format = Str(<< "text" >>, 4)

\* In this step the caller called executeCommand, in slot d.
Called(d) ==
    /\ calls' = calls + 1
    /\ disp'[d] # disp[d]
    /\ disp'[d].via = "dispatch"

\* C18: a call whose params carry a context text (a non-empty string) makes
\* the Orchestrator append exactly one entry {command, content, timestamp},
\* with the command as called and that text, and the workflow it dispatches to
\* gets the same text as context.context; a call without the flag makes the
\* Orchestrator append nothing and the workflow gets no context text.
C18_ContextFlagStoredAndPassed ==
    [][ \A d \in Slots :
          Called(d) =>
             LET text == Get(disp'[d].params, "context")
             IN  IF Truthy(text)
                 THEN /\ contextRef' = contextRef
                      /\ heap' = [heap EXCEPT ![contextRef] =
                                    Append(@, [command |-> disp'[d].command,
                                               content |-> text,
                                               timestamp |-> "now"])]
                      /\ disp'[d].entered =>
                            /\ disp'[d].c.context = text
                            /\ "context" \notin DOMAIN disp'[d].c.params
                 ELSE /\ contextRef' = contextRef
                      /\ heap' = heap
                      /\ disp'[d].entered => disp'[d].c.context = [t |-> "undefined"] ]_vars

\* system:on was called with the context "note": the store holds the one
\* entry keyed by "system:on" and the workflow's context carries "note".
C18_Witness ==
    \E d \in Slots :
        /\ Dispatched(d) /\ disp[d].entered
        /\ disp[d].command = << "system", ":", "on" >>
        /\ disp[d].c.context = Str(<< "note" >>, 4)
        /\ Store = << [command |-> << "system", ":", "on" >>,
                       content |-> Str(<< "note" >>, 4), timestamp |-> "now"] >>

\* ------------------------------------------------------------ claims on the pipeline
\* C19: Workflow.execute returns context.result when a phase has set it, and
\* otherwise the phaseResults map, which then has exactly one entry for each
\* of the five phases, the value that phase's handler returned (the status
\* objects of the base handlers, the handler's object for the workflow phase,
\* undefined for an output phase that returns context.result).
C19_ResultOrPhaseResults ==
    \A d \in Slots :
        disp[d].st = "resolved" =>
            /\ DOMAIN disp[d].c.phaseResults =
                  {"initialization", "parameters", "workflow", "validation", "output"}
            /\ disp[d].c.phaseResults["initialization"].status = "initialized"
            /\ disp[d].c.phaseResults["parameters"].status = "parameters_processed"
            /\ IF disp[d].c.result # [t |-> "undefined"]
               THEN disp[d].value = disp[d].c.result
               ELSE /\ disp[d].value = disp[d].c.phaseResults
                    /\ disp[d].wf \in {"SystemWorkflow", "AgentWorkflow", "MetaWorkflow",
                                       "OutputWorkflow"} =>
                          /\ disp[d].value["workflow"].success = TRUE
                          /\ disp[d].value["validation"] = [status |-> "validated"]
                          /\ disp[d].value["output"] = [status |-> "output_formatted"]
                    /\ disp[d].wf = "MessageWorkflow" =>
                          /\ disp[d].value["workflow"].action = "read"
                          /\ disp[d].value["validation"].valid = TRUE
                          /\ disp[d].value["output"] = [t |-> "undefined"]

\* meta:context --list resolved to the phaseResults map, the handler's object
\* under "workflow"; no phase had set context.result.
C19_Witness ==
    \E d \in Slots :
        /\ Dispatched(d) /\ disp[d].st = "resolved"
        /\ disp[d].command = MetaContext
        /\ disp[d].c.result = [t |-> "undefined"]
        /\ disp[d].value = disp[d].c.phaseResults
        /\ disp[d].value["workflow"].action = "context_listed"

\* The workflows whose validation phase calls the Rule Evaluator.
CallsRuleEvaluator(wf) == wf \in {"MessageWorkflow", "CriticWorkflow"}
ValidationReturned(slot) == "validation" \in DOMAIN slot.c.phaseResults

OverlapCalls ==
    { [command |-> Cmd("meta", "context"), params |-> [add |-> TxtHello]],
      [command |-> Cmd("meta", "context"), params |-> [list |-> Bool(TRUE)]],
      [command |-> Cmd("meta", "context"), params |-> [clear |-> Bool(TRUE)]],
      [command |-> Cmd("system", "on"), params |-> [context |-> TxtNote]],
      [command |-> Cmd("bogus", "foo"), params |-> [context |-> TxtNote]],
      [command |-> Cmd("critic", "harsh"), params |-> [source |-> TxtNote]],
      [command |-> Cmd("critic", "mentor"),
       params |-> [source |-> TxtHello, domain |-> Str(<< "thoughts" >>, 8)]],
      [command |-> Cmd("critic", "casual"), params |-> [source |-> TxtHi, save |-> PathGood]] }

MayOverlapCall(d) ==
    /\ calls < NumSlots
    /\ d = calls + 1

\* The caller calls orchestrator.executeCommand(command, params).
OverlapCommand(d) ==
    /\ MayOverlapCall(d)
    /\ \E call \in OverlapCalls :
          LET r == executeCommand(call.command, call.params, Globals, workflows)
          IN  /\ disp' = [disp EXCEPT ![d] = r.slot]
              /\ SetGlobals(r.g)
    /\ calls' = calls + 1
    /\ UNCHANGED << workflows, files >>

NextOverlap ==
    \E d \in Slots :
        \/ OverlapCommand(d)
        \/ NextPhase(d)
        \/ Finish(d)

SpecOverlap == Init /\ [][NextOverlap]_vars

\* C21: one command is fully dispatched before the next: no phase of a
\* dispatch runs while another dispatch is pending, so at most one dispatch is
\* ever pending with phases run.
C21_DispatchesNeverInterleave ==
    /\ [][ \A d, e \in Slots :
             (d # e /\ disp'[d].log # disp[d].log) => disp[e].st # "running" ]_vars
    /\ [](\A d, e \in Slots : (Pending(d) /\ Pending(e)) => d = e)

\* ------------------------------------------------------------ claims on failures
\* C23: a dispatch with save whose five phases returned ends with the write of
\* the trace: either the file is written and the dispatch resolves with the
\* pipeline's result, or the write fails, no file is written and the dispatch
\* rejects with the write error and no value; after such a rejection the
\* caller's next call is accepted.
C23_WriteFailureRejects ==
    /\ [][ \A d \in Slots :
             (/\ disp[d].st = "running" /\ disp'[d].st # "running"
              /\ disp[d].via = "dispatch"
              /\ disp[d].log = TheFivePhases /\ disp[d].thrownBy = "none"
              /\ Truthy(Get(disp[d].params, "save")))
             => \/ /\ disp'[d].st = "resolved"
                   /\ disp[d].params.save \in DOMAIN files'
                   /\ files'[disp[d].params.save].result = disp'[d].value
                \/ /\ disp'[d].st = "rejected"
                   /\ disp'[d].error = WriteError
                   /\ disp'[d].value = [t |-> "undefined"]
                   /\ files' = files ]_vars
    /\ [](\A d \in Slots :
             (disp[d].st = "rejected" /\ disp[d].error = WriteError) =>
                 /\ disp[d].thrownBy = "none"
                 /\ Truthy(Get(disp[d].params, "save"))
                 /\ calls < MaxCalls => ENABLED ExecuteCommand(1))

\* system:on --save /tmp/trace.json ran its five phases, the write failed,
\* and the dispatch is rejected with the write error, no file written.
C23_Witness ==
    \E d \in Slots :
        /\ Dispatched(d) /\ disp[d].st = "rejected"
        /\ disp[d].command = << "system", ":", "on" >>
        /\ disp[d].log = TheFivePhases
        /\ disp[d].error = WriteError
        /\ files = << >>

\* The phases a workflow class overrides (from the class bodies).
OverriddenBy(wf) ==
    CASE wf = "MessageWorkflow" -> {"workflow", "validation", "output"}
      [] wf = "CriticWorkflow" ->
            {"initialization", "parameters", "workflow", "validation", "output"}
      [] OTHER -> {"workflow"}
\* The phases of a dispatch whose handler returned.
Returned(slot) == DOMAIN slot.c.phaseResults

\* C24 (as stated): for a phase the concrete workflow does not override, the
\* entry recorded in phaseResults is {status: "completed"}.
C24_DefaultRecordsCompleted ==
    \A d \in Slots :
        \A phase \in Returned(disp[d]) \ OverriddenBy(disp[d].wf) :
            disp[d].c.phaseResults[phase].status = "completed"

TheFivePhasesSet == {"initialization", "parameters", "workflow", "validation", "output"}

\* The status each BaseWorkflow handler returns.
BaseStatus(phase) ==
    CASE phase = "initialization" -> "initialized"
      [] phase = "parameters" -> "parameters_processed"
      [] phase = "workflow" -> "workflow_completed"
      [] phase = "validation" -> "validated"
      [] phase = "output" -> "output_formatted"

\* C24 (amended): a phase the concrete workflow does not override is handled
\* by BaseWorkflow's handler of that name: when it returns, the entry recorded
\* is that handler's status object ("initialized", "parameters_processed" with
\* the params, "validated", "output_formatted"), never {status: "completed"},
\* and the pipeline advances; the parameters handler is the one that can throw
\* instead (a malformed save path, a context text that is too long).
C24_BaseHandlerRecordsItsStatus ==
    \A d \in Slots :
        /\ \A phase \in Returned(disp[d]) \ OverriddenBy(disp[d].wf) :
              /\ disp[d].c.phaseResults[phase].status = BaseStatus(phase)
              /\ phase = "parameters" =>
                    disp[d].c.phaseResults[phase] =
                        [status |-> "parameters_processed", params |-> disp[d].c.params]
              /\ phase # "parameters" =>
                    disp[d].c.phaseResults[phase] = [status |-> BaseStatus(phase)]
        /\ (disp[d].thrownBy \in TheFivePhasesSet \ OverriddenBy(disp[d].wf)) =>
              /\ disp[d].thrownBy = "parameters"
              /\ \/ MalformedSave(disp[d].c.save)
                 \/ TooLongContext(disp[d].c.context)

\* system:on resolved: its initialization, parameters, validation and output
\* entries are the base handlers' status objects.
C24_Witness ==
    \E d \in Slots :
        /\ Dispatched(d) /\ disp[d].st = "resolved"
        /\ disp[d].command = << "system", ":", "on" >>
        /\ disp[d].c.phaseResults["initialization"] = [status |-> "initialized"]
        /\ disp[d].c.phaseResults["validation"] = [status |-> "validated"]
        /\ disp[d].c.phaseResults["output"] = [status |-> "output_formatted"]

MessageNew == << "message", ":", "new" >>
ContentRequired ==
    << "Message content is required. Use --message \"your message\" or provide it as a positional argument." >>
\* The positional tokens a call carries.
PositionalTokens(params) ==
    IF "args" \in DOMAIN params THEN params.args.items ELSE << >>
\* A message is supplied: a non-empty --message, or positional tokens.
MessageSupplied(params) ==
    \/ Truthy(Get(params, "message"))
    \/ Len(PositionalTokens(params)) > 0

\* C25: the workflow phase of message:new throws the 'message content is
\* required' error exactly when no message is supplied (--message absent or
\* empty and no positional tokens); a message supplied as positional tokens
\* only is accepted and the content is the tokens joined by spaces.
C25_MessageRequiredExactlyWhenMissing ==
    \A d \in Slots :
        (Dispatched(d) /\ disp[d].command = MessageNew /\ Ran(d, "workflow")) =>
            /\ (disp[d].thrownBy = "workflow" /\ disp[d].thrown.message = ContentRequired)
                  <=> ~MessageSupplied(disp[d].params)
            /\ (~Truthy(Get(disp[d].params, "message"))
                  /\ Len(PositionalTokens(disp[d].params)) > 0) =>
                  /\ disp[d].thrownBy # "workflow"
                  /\ WorkflowResult(disp[d]).message.content.s
                        = Join(PositionalTokens(disp[d].params), " ")

AgentStatus == << "agent", ":", "status" >>

\* C26: agent:status reports the Session Settings as they are - the values
\* last set by a successful agent:switch, output:verbosity or output:format,
\* or the defaults - and no step of it changes any of them.
C26_StatusReportsSettings ==
    /\ [][ \A d \in Slots :
             (disp'[d] # disp[d] /\ disp'[d].command = AgentStatus) =>
                 /\ settings' = settings
                 /\ (Len(disp[d].log) = 2 /\ Len(disp'[d].log) = 3) =>
                       /\ disp'[d].thrownBy = "none"
                       /\ WorkflowResult(disp'[d]).action = "status"
                       /\ WorkflowResult(disp'[d]).activeAgent = settings.activeAgent
                       /\ WorkflowResult(disp'[d]).verbosity = settings.verbosity
                       /\ WorkflowResult(disp'[d]).format = settings.format ]_vars
    /\ [](\A d \in Slots :
             (Dispatched(d) /\ disp[d].command = AgentStatus /\ disp[d].st = "resolved"
                /\ \A e \in Slots : e # d => ~Pending(e))
             => /\ WorkflowResult(disp[d]).activeAgent = settings.activeAgent
                /\ WorkflowResult(disp[d]).verbosity = settings.verbosity
                /\ WorkflowResult(disp[d]).format = settings.format)

\* agent:status resolved after a switch: it reports casual-critic, and the
\* default verbosity and format.
C26_Witness ==
    \E d \in Slots :
        /\ Dispatched(d) /\ disp[d].command = AgentStatus /\ disp[d].st = "resolved"
        /\ WorkflowResult(disp[d]).activeAgent = Str(<< "casual-critic" >>, 13)
        /\ WorkflowResult(disp[d]).verbosity = Str(<< "off" >>, 3)
        /\ settings.activeAgent = Str(<< "casual-critic" >>, 13)

\* In this step dispatch d ran its workflow phase (it returned or threw).
WorkflowPhaseRan(d) == Len(disp[d].log) = 2 /\ Len(disp'[d].log) = 3
SpecifyAFlag == << "Specify --add, --list, or --clear for meta:context command" >>

\* C27: the handler of meta:context does exactly one of add, list and clear,
\* the first of them (in that order) whose flag is truthy: an add appends one
\* entry and removes nothing, a list changes nothing, a clear empties the
\* store; with no flag truthy (an empty add included) it throws 'Specify
\* --add, --list, or --clear' and the store is unchanged.
C27_ExactlyOneStoreOperation ==
    [][ \A d \in Slots :
          (WorkflowPhaseRan(d) /\ disp'[d].command = MetaContext) =>
             LET op == StoreOp(disp'[d].params)
                 threw == disp'[d].thrownBy = "workflow"
             IN  /\ threw <=> op = "none"
                 /\ threw => /\ disp'[d].thrown.message = SpecifyAFlag
                             /\ heap' = heap /\ contextRef' = contextRef
                 /\ op = "add" =>
                       /\ WorkflowResult(disp'[d]).action = "context_added"
                       /\ contextRef' = contextRef
                       /\ heap'[contextRef] =
                             Append(heap[contextRef],
                                    [command |-> MetaContext,
                                     content |-> disp'[d].params.add,
                                     timestamp |-> "now"])
                 /\ op = "list" =>
                       /\ WorkflowResult(disp'[d]).action = "context_listed"
                       /\ heap' = heap /\ contextRef' = contextRef
                 /\ op = "clear" =>
                       /\ WorkflowResult(disp'[d]).action = "context_cleared"
                       /\ heap'[contextRef'] = << >> ]_vars

\* meta:context with both --add "note" and --clear resolved as an add: the
\* store holds two entries, the one that was there and the added one.
C27_Witness ==
    \E d \in Slots :
        /\ Dispatched(d) /\ disp[d].command = MetaContext /\ disp[d].st = "resolved"
        /\ DOMAIN disp[d].params = {"add", "clear"}
        /\ WorkflowResult(disp[d]).action = "context_added"
        /\ Len(Store) = 2
        /\ Store[2].content = Str(<< "note" >>, 4)

\* ------------------------------------------------------------ claims on overlapping dispatches
\* How many entries a dispatch has appended to the store so far: one by the
\* Orchestrator for the context flag, one by the handler of meta:context --add.
AppendedBy(slot) ==
    (IF slot.via = "dispatch" /\ Truthy(Get(slot.params, "context")) THEN 1 ELSE 0)
    + (IF /\ slot.command = MetaContext
          /\ "workflow" \in DOMAIN slot.c.phaseResults
          /\ StoreOp(slot.params) = "add"
       THEN 1 ELSE 0)
\* The clearedCount a dispatch's clear has returned (0 when it has not cleared).
ClearedBy(slot) ==
    IF /\ slot.command = MetaContext
       /\ "workflow" \in DOMAIN slot.c.phaseResults
       /\ StoreOp(slot.params) = "clear"
    THEN slot.c.phaseResults["workflow"].clearedCount
    ELSE 0
RECURSIVE SumAppended(_)
SumAppended(n) == IF n = 0 THEN 0 ELSE AppendedBy(disp[n]) + SumAppended(n - 1)
RECURSIVE SumCleared(_)
SumCleared(n) == IF n = 0 THEN 0 ELSE ClearedBy(disp[n]) + SumCleared(n - 1)

\* C28: under every interleaving of overlapping dispatches no entry of the
\* store is lost: the clearedCount values returned so far plus the length of
\* the store equal the number of entries appended so far (in every state, the
\* quiescent ones included).
C28_NoEntryLost ==
    SumCleared(NumSlots) + Len(Store) = SumAppended(NumSlots)

\* A clear overlapped an add: the add's dispatch is still pending after its
\* workflow phase, and the clear, called after it, has returned the count 1.
C28_Witness ==
    /\ disp[1].st = "running" /\ disp[1].command = MetaContext
    /\ StoreOp(disp[1].params) = "add" /\ Len(disp[1].log) = 3
    /\ disp[2].command = MetaContext /\ StoreOp(disp[2].params) = "clear"
    /\ ClearedBy(disp[2]) = 1
    /\ Store = << >>

\* C29: throughout a dispatch the globalContext of its context shows the
\* current contents of the Global Context Store: entries added meanwhile are
\* in it, and after a clear it is empty.
C29_GlobalContextIsTheStore ==
    \A d \in Slots :
        (Dispatched(d) /\ disp[d].entered /\ Pending(d)) =>
            GlobalContextOf(disp[d]) = Store

\* The action of a critic command, and the domain its report is made for.
OwnPersonality(slot) == slot.command[3]
OwnDomain(slot) ==
    IF Truthy(Get(slot.params, "domain")) THEN slot.params.domain
    ELSE [t |-> "string", s |-> << "general" >>, len |-> 7]
UpperOf(domain) ==
    CASE domain = << "general" >> -> "GENERAL"
      [] domain = << "thoughts" >> -> "THOUGHTS"
IsCritic(slot) ==
    /\ slot.via = "dispatch"
    /\ Len(slot.command) = 3 /\ slot.command[1] = "critic"
    /\ slot.command[3] \in {"harsh", "mentor", "casual"}

\* C30: the critic dispatches never mix their data, however they overlap:
\* the personality on the context, in the content data and in the result is
\* the action of the dispatch's own command, the critique is generated from
\* its own source and domain with the '<own action>-critic' agent loaded, and
\* the resolved result carries its own domain and a report headed by it.
C30_CriticDataNotMixed ==
    \A d \in Slots :
        (IsCritic(disp[d]) /\ disp[d].entered) =>
            /\ disp[d].c.personality = OwnPersonality(disp[d])
            /\ << OwnPersonality(disp[d]), "-critic" >> \in agents
            /\ "workflow" \in DOMAIN disp[d].c.phaseResults =>
                  /\ disp[d].c.critique.metadata.personality = OwnPersonality(disp[d])
                  /\ disp[d].c.critique.metadata.content = disp[d].params.source
                  /\ disp[d].c.critique.metadata.domain = OwnDomain(disp[d])
            /\ disp[d].thrownBy \notin {"initialization", "workflow", "output"}
            /\ disp[d].st = "resolved" =>
                  /\ disp[d].value.personality = OwnPersonality(disp[d])
                  /\ disp[d].value.domain = OwnDomain(disp[d])
                  /\ disp[d].value.report.heading =
                        << "# ", UpperOf(OwnDomain(disp[d]).s), " CRITIQUE (", "BaseWorkflow", ")" >>
                  /\ disp[d].value.report.metadata.content = disp[d].params.source
                  /\ disp[d].value.report.metadata.personality = OwnPersonality(disp[d])

\* critic:harsh and critic:mentor overlap: both are pending with their
\* critique generated, each from its own source, domain and personality.
C30_Witness ==
    /\ disp[1].command = << "critic", ":", "harsh" >> /\ disp[1].st = "running"
    /\ Len(disp[1].log) = 4
    /\ disp[1].c.critique.metadata.personality = "harsh"
    /\ disp[1].c.critique.metadata.content = [t |-> "string", s |-> << "note" >>, len |-> 4]
    /\ disp[2].command = << "critic", ":", "mentor" >> /\ disp[2].st = "running"
    /\ Len(disp[2].log) = 4
    /\ disp[2].c.critique.metadata.personality = "mentor"
    /\ disp[2].c.critique.metadata.domain = [t |-> "string", s |-> << "thoughts" >>, len |-> 8]
    /\ disp[2].c.critique.metadata.content = [t |-> "string", s |-> << "hello" >>, len |-> 5]

====
